---- MODULE Spec2Model ----
(***************************************************************************)
(* Model of the nostos-site serverless handlers:                           *)
(*   - netlify/functions/create-checkout-session.js (Session Initiator)    *)
(*   - netlify/functions/stripe-webhook.js (Payment-Event Receiver), in    *)
(*     its two source variants: the tag variant (kitPost, lines 1-142)     *)
(*     and the sequence/tag variant (kitRequest, lines 144-272).           *)
(* A third receiver variant, the one that consults the payment intent's    *)
(* kit_sync_completed flag, is described by the specification only; it is  *)
(* modelled from the specification's section 4.2 (variant "idem").         *)
(*                                                                         *)
(* One handler invocation is in flight at a time.  An invocation runs from *)
(* its entry to its first awaited outbound call (or to its return) in one  *)
(* step, and every completion of an awaited call resumes it up to the next *)
(* await or return.                                                        *)
(*                                                                         *)
(* Spec runs the receiver (and the initiator that creates the payment      *)
(* intent) over deliveries, configurations and subscriber-API outcomes;    *)
(* SpecCheckout runs the initiator alone over its configurations, methods, *)
(* bodies and provider outcomes.                                           *)
(***************************************************************************)
EXTENDS Integers, Sequences, FiniteSets, TLC

VARIABLES
  variant,      \* which receiver is deployed: "tag", "seqtag" or "idem"
  env,          \* process.env
  piFlag,       \* payment intent pi_1: "none" (not created) or the value of
                \* its metadata kit_sync_completed: "false" / "true"
  paid,         \* index in EventPayloads of the completed event of the
                \* session paid with pi_1, 0 while there is none
  forwards,     \* deliveries that completed every forwarding call for pi_1
  fn,           \* handler of the current / last invocation
  pc,           \* position of the invocation: "idle", an awaited call, "done"
  event,        \* the HTTP event of the invocation
  stripeEvent,  \* index of the verified event in EventPayloads, 0 if none
  email,        \* email extracted from the session ("" if none)
  calls,        \* outbound calls issued by the invocation, in order
  result        \* the handler's return value; statusCode 0 while running

vars == <<variant, env, piFlag, paid, forwards, fn, pc, event, stripeEvent, email, calls, result>>

(***************************************************************************)
(* Bounds                                                                  *)
(***************************************************************************)
\* Webhook deliveries stop once this many have completed forwarding.
MaxForwards == 2

\* The configured site URLs end in at most this many slashes.
MaxSlashes == 2

(***************************************************************************)
(* Small helpers                                                           *)
(***************************************************************************)
MinOf(S) == CHOOSE x \in S : \A y \in S : x <= y

HasField(r, f) == f \in DOMAIN r

\* s includes phrase as a contiguous run (String.prototype.includes, on tokens).
Includes(s, phrase) ==
  \E i \in 0..(Len(s) - Len(phrase)) :
    \A j \in 1..Len(phrase) : s[i + j] = phrase[j]

(***************************************************************************)
(* Provider events                                                         *)
(***************************************************************************)
NoDetails == [present |-> FALSE, email |-> ""]
Details(e) == [present |-> TRUE, email |-> e]

Session(cd, ce, pi) == [customer_details |-> cd, customer_email |-> ce, payment_intent |-> pi]
NoObject == Session(NoDetails, "", "")

\* The parsed event envelopes the provider can sign ({type, data.object}).
EventPayloads == <<
  [type |-> "payment_intent.succeeded", object |-> NoObject],
  [type |-> "charge.refunded", object |-> NoObject],
  [type |-> "checkout.session.completed", object |-> Session(NoDetails, "", "pi_1")],
  [type |-> "checkout.session.completed", object |-> Session(Details(""), "", "pi_1")],
  [type |-> "checkout.session.completed", object |-> Session(NoDetails, "ce@x.co", "pi_1")],
  [type |-> "checkout.session.completed", object |-> Session(Details(""), "ce@x.co", "pi_1")],
  [type |-> "checkout.session.completed", object |-> Session(Details("cd@x.co"), "ce@x.co", "pi_1")],
  [type |-> "checkout.session.completed", object |-> Session(Details("cd@x.co"), "", "")]
>>

PayloadIds == DOMAIN EventPayloads

(***************************************************************************)
(* Transport encoding of the body and signatures                           *)
(***************************************************************************)
\* event.body: the JSON text of payload json ("utf8"), its base64 text
\* ("b64"), or absent ("null").
Body(enc, json) == [enc |-> enc, json |-> json]
NullBody == Body("null", 0)

\* The bytes handed to constructEvent: "json" are the exact JSON bytes of
\* payload json, "b64text" the still-encoded base64 text, "garbage" what
\* base64-decoding a JSON text yields, "empty" the empty string.
Bytes(kind, json) == [kind |-> kind, json |-> json]

\* Buffer.from(text, 'base64')
Base64Decode(body) ==
  CASE body.enc = "b64" -> Bytes("json", body.json)
    [] body.enc = "utf8" -> Bytes("garbage", 0)
    [] OTHER -> Bytes("empty", 0)

\* the string itself (no decoding)
Utf8Bytes(body) ==
  CASE body.enc = "utf8" -> Bytes("json", body.json)
    [] body.enc = "b64" -> Bytes("b64text", body.json)
    [] OTHER -> Bytes("empty", 0)

\* A header value: a signature over the JSON bytes of payload `signed` made
\* with `secret`.  signed = 0 is the empty string, signed = -1 is null.
Sig(signed, secret) == [signed |-> signed, secret |-> secret]
EmptyValue == Sig(0, "")
NullValue == Sig(-1, "")
Truthy(v) == v.signed > 0

(***************************************************************************)
(* stripe-webhook.js: shared helpers                                       *)
(***************************************************************************)
response(statusCode, body) ==
  [statusCode |-> statusCode, headers |-> [ContentType |-> "application/json"], body |-> body]

NoResult == [statusCode |-> 0, headers |-> [ContentType |-> ""], body |-> [none |-> TRUE]]

\* String.prototype.toLowerCase on the header names used here
toLowerCaseName(k) ==
  CASE k = "Stripe-Signature" -> "stripe-signature"
    [] k = "STRIPE-SIGNATURE" -> "stripe-signature"
    [] k = "X-Other" -> "x-other"
    [] OTHER -> k

\* headers: [present, entries], entries the object's own keys in insertion
\* order, each <<name, value>>.
Headers(entries) == [present |-> TRUE, entries |-> entries]
NoHeaders == [present |-> FALSE, entries |-> <<>>]

\* Mutant of getHeader: only the exact key is looked up.
getHeader_DirectOnly(headers, key) ==
  IF ~headers.present THEN NullValue
  ELSE
    LET es == headers.entries
        exact == {i \in DOMAIN es : es[i][1] = key}
    IN IF exact = {} THEN NullValue ELSE es[MinOf(exact)][2]

getHeader(headers, key) ==
  IF ~headers.present THEN NullValue
  ELSE
    LET es == headers.entries
        exact == {i \in DOMAIN es : es[i][1] = key}
        direct == IF exact = {} THEN NullValue ELSE es[MinOf(exact)][2]
    IN IF Truthy(direct) THEN direct
       ELSE
         LET wanted == toLowerCaseName(key)
             found == {i \in DOMAIN es : toLowerCaseName(es[i][1]) = wanted}
         IN IF found = {} THEN NullValue ELSE es[MinOf(found)][2]

\* isBase64 ? Buffer.from(event.body || '', 'base64') : (event.body || '')
RawPayload(ev) ==
  IF ev.isBase64Encoded THEN Base64Decode(ev.body) ELSE Utf8Bytes(ev.body)

\* Mutant of constructEvent: the signature's secret is checked, the bytes it
\* covers are not.
constructEvent_SecretOnly(payload, signature, webhookSecret) ==
  IF payload.kind = "json" /\ signature.secret = webhookSecret
  THEN [ok |-> TRUE, event |-> payload.json]
  ELSE [ok |-> FALSE, event |-> 0]

\* stripe.webhooks.constructEvent(payload, signature, webhookSecret): returns
\* the parsed event when the signature was made over exactly these bytes with
\* this secret, throws otherwise.
constructEvent(payload, signature, webhookSecret) ==
  IF payload.kind = "json" /\ signature.signed = payload.json /\ signature.secret = webhookSecret
  THEN [ok |-> TRUE, event |-> payload.json]
  ELSE [ok |-> FALSE, event |-> 0]

\* Mutant of SessionEmail: the top-level customer_email is preferred.
SessionEmail_PrefersCustomerEmail(session) ==
  IF session.customer_email # "" THEN session.customer_email
  ELSE IF session.customer_details.present THEN session.customer_details.email ELSE ""

\* (session.customer_details && session.customer_details.email) || session.customer_email || ''
SessionEmail(session) ==
  IF session.customer_details.present /\ session.customer_details.email # ""
  THEN session.customer_details.email
  ELSE IF session.customer_email # "" THEN session.customer_email ELSE ""

MethodNotAllowed == response(405, [error |-> "Method not allowed"])
MissingSignature == response(400, [error |-> "Missing Stripe signature"])
VerificationFailed == response(400, [error |-> "Webhook signature verification failed"])
\* Mutant of IgnoredResponse: the event type is left out of the body.
IgnoredResponse_NoType(type) == response(200, [received |-> TRUE, ignored |-> TRUE])

IgnoredResponse(type) == response(200, [received |-> TRUE, ignored |-> TRUE, type |-> type])
ProcessedTrue == response(200, [received |-> TRUE, processed |-> TRUE])
ProcessedFalse == response(200, [received |-> TRUE, processed |-> FALSE])

(***************************************************************************)
(* The subscriber API as the handlers see it                               *)
(***************************************************************************)
\* What an awaited fetch can produce: an HTTP response (status, body text as
\* a sequence of words) or a thrown network error.
Response(status, raw) == [kind |-> "response", status |-> status, raw |-> raw]
Throw == [kind |-> "throw", status |-> 0, raw |-> <<>>]
Pending == [kind |-> "pending", status |-> 0, raw |-> <<>>]

BodyCreated == <<"subscriber">>
BodyExists == <<"Subscriber", "Already", "Exists">>
BodyTaken == <<"Email", "Has", "Already", "Been", "Taken">>
BodyField == <<"email_address", "is", "invalid">>
BodyError == <<"Internal", "Error">>

KitOutcomes ==
  { Response(200, BodyCreated), Response(202, <<>>), Response(422, BodyExists),
    Response(422, BodyTaken), Response(400, BodyField), Response(500, BodyError), Throw }

\* String.prototype.toLowerCase on the words used here
toLowerCaseWord(w) ==
  CASE w = "Subscriber" -> "subscriber"
    [] w = "Already" -> "already"
    [] w = "Exists" -> "exists"
    [] w = "Email" -> "email"
    [] w = "Has" -> "has"
    [] w = "Been" -> "been"
    [] w = "Taken" -> "taken"
    [] w = "Internal" -> "internal"
    [] w = "Error" -> "error"
    [] OTHER -> w

toLowerCase(text) == [i \in DOMAIN text |-> toLowerCaseWord(text[i])]

\* res.ok
ResOk(status) == status >= 200 /\ status <= 299

\* kitPost's return value {ok, status, data, raw}; data is kept as the text
\* JSON.stringify(data) yields: "null" for an empty body.
kitPost(out) ==
  [ok |-> ResOk(out.status), status |-> out.status, raw |-> out.raw,
   data |-> IF out.raw = <<>> THEN <<"null">> ELSE out.raw]

\* Mutant of isSubscriberAlreadyExists: any response text matches.
isSubscriberAlreadyExists_AnyText(res) ==
  LET text == toLowerCase(IF res.raw # <<>> THEN res.raw ELSE res.data)
  IN Includes(text, <<>>)

isSubscriberAlreadyExists(res) ==
  LET text == toLowerCase(IF res.raw # <<>> THEN res.raw ELSE res.data)
  IN \/ Includes(text, <<"already", "exists">>)
     \/ Includes(text, <<"has", "already", "been", "taken">>)
     \/ Includes(text, <<"email_address">>)

\* createResult.status === 200 || createResult.status === 201
StatusCreated(res) == res.status = 200 \/ res.status = 201

\* Mutant of kitRequest: res.ok is not checked.
kitRequest_NoOkCheck(out) ==
  IF out.kind = "response"
  THEN [threw |-> FALSE, value |-> out.raw]
  ELSE [threw |-> TRUE, value |-> <<>>]

\* kitRequest: returns the parsed body when res.ok, throws otherwise (a
\* network error of fetch propagates as well).
kitRequest(out) ==
  IF out.kind = "response" /\ ResOk(out.status)
  THEN [threw |-> FALSE, value |-> out.raw]
  ELSE [threw |-> TRUE, value |-> <<>>]

\* An outbound call as issued: which endpoint, for which id, with which email.
Call(op, target, em) == [op |-> op, target |-> target, email |-> em, out |-> Pending]

KitOps == {"upsert", "sequence", "tag"}

(***************************************************************************)
(* State of an invocation                                                  *)
(***************************************************************************)
St(p, evt, em, cs, res) ==
  [pc |-> p, stripeEvent |-> evt, email |-> em, calls |-> cs, result |-> res]

Return(st, res) == [st EXCEPT !.pc = "done", !.result = res]

\* issue the next awaited call
Await(st, p, call) == [st EXCEPT !.pc = p, !.calls = Append(st.calls, call)]

\* the awaited call completed with out
Settle(st, out) == [st EXCEPT !.calls[Len(st.calls)].out = out]

(***************************************************************************)
(* stripe-webhook.js, tag variant (lines 48-142)                           *)
(***************************************************************************)
TagRequired == <<"STRIPE_SECRET_KEY", "STRIPE_WEBHOOK_SECRET", "KIT_API_KEY", "KIT_TAG_ID">>

missing(e) == SelectSeq(TagRequired, LAMBDA n : e[n] = "")

TagConfigError(e) == response(500, [error |-> "Missing webhook/KIT configuration", missing |-> missing(e)])

TagConfigMissing(e) == Len(missing(e)) > 0

MissingEmailTag == response(200, [received |-> TRUE, processed |-> FALSE, error |-> "missing_email"])

\* Mutant of ProcessingError: the catch block answers 500.
ProcessingError_Status500 == response(500, [received |-> TRUE, processed |-> FALSE])

\* catch (error) { ... return response(200, { received: true, processed: false }) }
ProcessingError == ProcessedFalse

\* try block up to the first await (lines 94-109)
TagProcess(e, st) ==
  LET session == EventPayloads[st.stripeEvent].object
      em == SessionEmail(session)
  IN IF em = "" THEN Return(st, MissingEmailTag)
     ELSE Await([st EXCEPT !.email = em], "upsert", Call("upsert", "", em))

\* after `await kitPost('/subscribers', ...)` (lines 106-127)
TagAfterUpsert(e, st, out) ==
  IF out.kind = "throw" THEN Return(st, ProcessingError)
  ELSE
    LET createResult == kitPost(out)
    IN IF ~StatusCreated(createResult) /\ ~isSubscriberAlreadyExists(createResult)
       THEN Return(st, ProcessedFalse)
       ELSE Await(st, "tag", Call("tag", e.KIT_TAG_ID, st.email))

\* What the platform sees when the handler's promise rejects: no response.
Unhandled == [statusCode |-> 0, headers |-> [ContentType |-> ""], body |-> [unhandled |-> TRUE]]

\* Mutant of TagAfterTag: the tag call is awaited outside the try block, so
\* its network error escapes the handler.
TagAfterTag_NoCatch(e, st, out) ==
  IF out.kind = "throw" THEN Return(st, Unhandled)
  ELSE
    LET tagResult == kitPost(out)
    IN IF ~StatusCreated(tagResult) THEN Return(st, ProcessedFalse)
       ELSE Return(st, ProcessedTrue)

\* after `await kitPost('/tags/.../subscribers', ...)` (lines 125-137)
TagAfterTag(e, st, out) ==
  IF out.kind = "throw" THEN Return(st, ProcessingError)
  ELSE
    LET tagResult == kitPost(out)
    IN IF ~StatusCreated(tagResult) THEN Return(st, ProcessedFalse)
       ELSE Return(st, ProcessedTrue)

TagResume(e, st, out) ==
  IF st.pc = "upsert" THEN TagAfterUpsert(e, Settle(st, out), out)
  ELSE TagAfterTag(e, Settle(st, out), out)

(***************************************************************************)
(* stripe-webhook.js, sequence/tag variant (lines 189-272)                 *)
(***************************************************************************)
\* !stripeKey || !webhookSecret || !kitApiKey || (!kitSequenceId && !kitTagId)
SeqTagConfigMissing(e) ==
  \/ e.STRIPE_SECRET_KEY = ""
  \/ e.STRIPE_WEBHOOK_SECRET = ""
  \/ e.KIT_API_KEY = ""
  \/ (e.KIT_SEQUENCE_ID = "" /\ e.KIT_TAG_ID = "")

SeqTagConfigError == response(500, [error |-> "Missing webhook/KIT configuration"])

\* try block up to the first await (lines 230-249); a missing email throws
\* into the catch block
SeqTagProcess(e, st) ==
  LET session == EventPayloads[st.stripeEvent].object
      em == SessionEmail(session)
  IN IF em = "" THEN Return(st, ProcessingError)
     ELSE Await([st EXCEPT !.email = em], "upsert", Call("upsert", "", em))

\* Mutant of SeqTagTagStep: the tag call is left out.
SeqTagTagStep_NoTagCall(e, st) == Return(st, ProcessedTrue)

\* if (kitTagId) { await kitRequest(`/tags/...`) } return processed:true
SeqTagTagStep(e, st) ==
  IF e.KIT_TAG_ID # "" THEN Await(st, "tag", Call("tag", e.KIT_TAG_ID, st.email))
  ELSE Return(st, ProcessedTrue)

\* if (kitSequenceId) { await kitRequest(`/sequences/...`) } and on
SeqTagSequenceStep(e, st) ==
  IF e.KIT_SEQUENCE_ID # "" THEN Await(st, "sequence", Call("sequence", e.KIT_SEQUENCE_ID, st.email))
  ELSE SeqTagTagStep(e, st)

SeqTagResume(e, st, out) ==
  LET s1 == Settle(st, out)
  IN IF kitRequest(out).threw THEN Return(s1, ProcessingError)
     ELSE CASE st.pc = "upsert" -> SeqTagSequenceStep(e, s1)
            [] st.pc = "sequence" -> SeqTagTagStep(e, s1)
            [] OTHER -> Return(s1, ProcessedTrue)

(***************************************************************************)
(* Receiver variant with the payment-intent idempotency flag               *)
(* (specification section 4.2, steps 6-11)                                 *)
(***************************************************************************)
IdempotentAck == response(200, [received |-> TRUE, idempotent |-> TRUE])

\* step 8/9 policy: a non-success response is fatal unless its body says the
\* subscriber already exists
IdemCallFatal(out) == ~ResOk(out.status) /\ ~isSubscriberAlreadyExists(kitPost(out))

\* steps 6-7: extract the email, then consult the flag when the session
\* carries a payment-intent reference
IdemProcess(e, st) ==
  LET session == EventPayloads[st.stripeEvent].object
      em == SessionEmail(session)
      s1 == [st EXCEPT !.email = em]
  IN IF em = "" THEN Return(st, ProcessedFalse)
     ELSE IF session.payment_intent # ""
          THEN Await(s1, "pi_retrieve", Call("pi_retrieve", session.payment_intent, em))
          ELSE Await(s1, "upsert", Call("upsert", "", em))

\* Mutant of IdemAfterRetrieve: the flag is not looked at.
IdemAfterRetrieve_IgnoresFlag(e, st, flag) ==
  Await(st, "upsert", Call("upsert", "", st.email))

\* step 7: short-circuit when the flag is already "true"
IdemAfterRetrieve(e, st, flag) ==
  IF flag = "true" THEN Return(st, IdempotentAck)
  ELSE Await(st, "upsert", Call("upsert", "", st.email))

\* steps 10-11: write the flag back when it was consulted, then acknowledge
IdemFinish(e, st) ==
  LET session == EventPayloads[st.stripeEvent].object
  IN IF session.payment_intent # ""
     THEN Await(st, "pi_update", Call("pi_update", session.payment_intent, st.email))
     ELSE Return(st, ProcessedTrue)

IdemTagStep(e, st) ==
  IF e.KIT_TAG_ID # "" THEN Await(st, "tag", Call("tag", e.KIT_TAG_ID, st.email))
  ELSE IdemFinish(e, st)

IdemSequenceStep(e, st) ==
  IF e.KIT_SEQUENCE_ID # "" THEN Await(st, "sequence", Call("sequence", e.KIT_SEQUENCE_ID, st.email))
  ELSE IdemTagStep(e, st)

IdemResume(e, st, out) ==
  LET s1 == Settle(st, out)
  IN IF out.kind = "throw" THEN Return(s1, ProcessingError)
     ELSE IF IdemCallFatal(out) THEN Return(s1, ProcessedFalse)
     ELSE CASE st.pc = "upsert" -> IdemSequenceStep(e, s1)
            [] st.pc = "sequence" -> IdemTagStep(e, s1)
            [] OTHER -> IdemFinish(e, s1)

(***************************************************************************)
(* stripe-webhook.js: exports.handler from its entry to the first await    *)
(***************************************************************************)
Variants == {"tag", "seqtag", "idem"}

ConfigMissing(v, e) == IF v = "tag" THEN TagConfigMissing(e) ELSE SeqTagConfigMissing(e)

ConfigError(v, e) == IF v = "tag" THEN TagConfigError(e) ELSE SeqTagConfigError

Process(v, e, st) ==
  CASE v = "tag" -> TagProcess(e, st)
    [] v = "seqtag" -> SeqTagProcess(e, st)
    [] OTHER -> IdemProcess(e, st)

Resume(v, e, st, out) ==
  CASE v = "tag" -> TagResume(e, st, out)
    [] v = "seqtag" -> SeqTagResume(e, st, out)
    [] OTHER -> IdemResume(e, st, out)

\* Mutant of handler: the signature header is looked up before the
\* configuration is checked.
handler_SignatureFirst(v, e, ev) ==
  LET st0 == St("idle", 0, "", <<>>, NoResult)
      signature == getHeader(ev.headers, "stripe-signature")
  IN IF ev.httpMethod # "POST" THEN Return(st0, MethodNotAllowed)
     ELSE IF ~Truthy(signature) THEN Return(st0, MissingSignature)
     ELSE IF ConfigMissing(v, e) THEN Return(st0, ConfigError(v, e))
     ELSE
       LET verified == constructEvent(RawPayload(ev), signature, e.STRIPE_WEBHOOK_SECRET)
       IN IF ~verified.ok THEN Return(st0, VerificationFailed)
          ELSE
            LET st1 == [st0 EXCEPT !.stripeEvent = verified.event]
                type == EventPayloads[verified.event].type
            IN IF type # "checkout.session.completed"
               THEN Return(st1, IgnoredResponse(type))
               ELSE Process(v, e, st1)

handler(v, e, ev) ==
  LET st0 == St("idle", 0, "", <<>>, NoResult)
  IN IF ev.httpMethod # "POST" THEN Return(st0, MethodNotAllowed)
     ELSE IF ConfigMissing(v, e) THEN Return(st0, ConfigError(v, e))
     ELSE
       LET signature == getHeader(ev.headers, "stripe-signature")
       IN IF ~Truthy(signature) THEN Return(st0, MissingSignature)
          ELSE
            LET verified == constructEvent(RawPayload(ev), signature, e.STRIPE_WEBHOOK_SECRET)
            IN IF ~verified.ok THEN Return(st0, VerificationFailed)
               ELSE
                 LET st1 == [st0 EXCEPT !.stripeEvent = verified.event]
                     type == EventPayloads[verified.event].type
                 IN IF type # "checkout.session.completed"
                    THEN Return(st1, IgnoredResponse(type))
                    ELSE Process(v, e, st1)

(***************************************************************************)
(* create-checkout-session.js                                              *)
(***************************************************************************)
\* Strings the initiator inspects character by character are sequences of
\* one-character strings.
json(statusCode, body) ==
  [statusCode |-> statusCode,
   headers |-> [ContentType |-> "application/json", AccessControlAllowOrigin |-> "*",
                AccessControlAllowHeaders |-> "Content-Type",
                AccessControlAllowMethods |-> "POST, OPTIONS"],
   body |-> body]

IsSpace(c) == c = " "

RECURSIVE trimStart(_)
trimStart(s) == IF s # <<>> /\ IsSpace(Head(s)) THEN trimStart(Tail(s)) ELSE s

RECURSIVE trimEnd(_)
trimEnd(s) == IF s # <<>> /\ IsSpace(s[Len(s)]) THEN trimEnd(SubSeq(s, 1, Len(s) - 1)) ELSE s

trim(s) == trimEnd(trimStart(s))

toLowerCaseChar(c) ==
  CASE c = "A" -> "a"
    [] c = "B" -> "b"
    [] c = "C" -> "c"
    [] OTHER -> c

toLowerCaseChars(s) == [i \in DOMAIN s |-> toLowerCaseChar(s[i])]

\* Mutant of EmailShape: only an @ between two characters is asked for.
EmailShape_AtOnly(s) ==
  /\ \A i \in DOMAIN s : ~IsSpace(s[i])
  /\ \E i \in DOMAIN s : s[i] = "@" /\ 1 < i /\ i < Len(s)

\* /^\S+@\S+\.\S+$/.test(s)
EmailShape(s) ==
  /\ \A i \in DOMAIN s : ~IsSpace(s[i])
  /\ \E i, j \in DOMAIN s :
       /\ s[i] = "@" /\ s[j] = "."
       /\ 1 < i /\ i + 1 < j /\ j < Len(s)

\* (process.env.SITE_URL || 'https://nostosprogram.com').replace(/\/$/, '')
DefaultSiteUrl == <<"https://nostosprogram.com">>

RECURSIVE stripSlashes(_)
stripSlashes(u) ==
  IF u # <<>> /\ u[Len(u)] = "/" THEN stripSlashes(SubSeq(u, 1, Len(u) - 1)) ELSE u

\* Mutant of siteUrlOf: every trailing slash is stripped (/\/+$/).
siteUrlOf_StripsAll(e) ==
  stripSlashes(IF e.SITE_URL # <<>> THEN e.SITE_URL ELSE DefaultSiteUrl)

siteUrlOf(e) ==
  LET u == IF e.SITE_URL # <<>> THEN e.SITE_URL ELSE DefaultSiteUrl
  IN IF u[Len(u)] = "/" THEN SubSeq(u, 1, Len(u) - 1) ELSE u

\* payload.full_name || payload.fullName || payload.first_name || payload.firstName || ''
fullNameOf(payload) ==
  trim(CASE payload.full_name # <<>> -> payload.full_name
         [] payload.fullName # <<>> -> payload.fullName
         [] payload.first_name # <<>> -> payload.first_name
         [] OTHER -> payload.firstName)

\* Mutant of SessionParams: the email is not bound to the session.
SessionParams_NoCustomerEmail(e, em, fullName) ==
  [mode |-> "payment",
   line_items |-> <<[price |-> e.STRIPE_PRICE_ID, quantity |-> 1]>>,
   customer_email |-> <<>>,
   success_url |-> siteUrlOf(e) \o <<"/merci?session_id={CHECKOUT_SESSION_ID}">>,
   cancel_url |-> siteUrlOf(e) \o <<"/annulation">>,
   metadata |-> [full_name |-> fullName, source |-> "nostosprogram.com"],
   payment_intent_data |->
     [metadata |-> [full_name |-> fullName, source |-> "nostosprogram.com",
                    kit_sync_completed |-> "false"]]]

\* Mutant of SessionParams: the payment intent is created as already synced.
SessionParams_CreatedSynced(e, em, fullName) ==
  [mode |-> "payment",
   line_items |-> <<[price |-> e.STRIPE_PRICE_ID, quantity |-> 1]>>,
   customer_email |-> em,
   success_url |-> siteUrlOf(e) \o <<"/merci?session_id={CHECKOUT_SESSION_ID}">>,
   cancel_url |-> siteUrlOf(e) \o <<"/annulation">>,
   metadata |-> [full_name |-> fullName, source |-> "nostosprogram.com"],
   payment_intent_data |->
     [metadata |-> [full_name |-> fullName, source |-> "nostosprogram.com",
                    kit_sync_completed |-> "true"]]]

\* the argument of stripe.checkout.sessions.create
SessionParams(e, em, fullName) ==
  [mode |-> "payment",
   line_items |-> <<[price |-> e.STRIPE_PRICE_ID, quantity |-> 1]>>,
   customer_email |-> em,
   success_url |-> siteUrlOf(e) \o <<"/merci?session_id={CHECKOUT_SESSION_ID}">>,
   cancel_url |-> siteUrlOf(e) \o <<"/annulation">>,
   metadata |-> [full_name |-> fullName, source |-> "nostosprogram.com"],
   payment_intent_data |->
     [metadata |-> [full_name |-> fullName, source |-> "nostosprogram.com",
                    kit_sync_completed |-> "false"]]]

CheckoutBody(kind, em, name) ==
  [kind |-> kind, email |-> em, full_name |-> name, fullName |-> <<>>,
   first_name |-> <<>>, firstName |-> <<>>]

\* The provider's answer to sessions.create: a session, or an error message
\* (possibly empty).
CreateOk == [ok |-> TRUE, message |-> ""]
CreateFails(msg) == [ok |-> FALSE, message |-> msg]

\* the try block of exports.handler (lines 25-66), the awaited provider call
\* answering with `outcome`; whatever is thrown inside lands in the catch
\* block (lines 64-66)
checkoutTry(e, ev, outcome) ==
  LET st0 == St("idle", 0, "", <<>>, NoResult)
  IN IF e.STRIPE_SECRET_KEY = "" \/ e.STRIPE_PRICE_ID = ""
          THEN Return(st0, json(500, [error |-> "Missing Stripe configuration"]))
     ELSE IF ev.body.kind = "invalid"
          THEN Return(st0, json(500, [error |-> "Unexpected token in JSON"]))
     ELSE
       LET payload == IF ev.body.kind = "null" THEN CheckoutBody("json", <<>>, <<>>) ELSE ev.body
           em == toLowerCaseChars(trim(payload.email))
           fullName == fullNameOf(payload)
       IN IF em = <<>> \/ ~EmailShape(em)
          THEN Return(st0, json(400, [error |-> "Email invalide"]))
          ELSE
            LET call == [op |-> "sessions.create", target |-> SessionParams(e, em, fullName),
                         email |-> em, out |-> outcome]
                s1 == [st0 EXCEPT !.calls = <<call>>, !.email = em]
            IN IF outcome.ok
               THEN Return(s1, json(200, [url |-> "https://checkout.stripe.com/c/cs_1", id |-> "cs_1"]))
               ELSE Return(s1, json(500, [error |-> IF outcome.message # "" THEN outcome.message
                                                    ELSE "Unable to create checkout session"]))

\* Mutant of checkoutHandler: the method is not looked at.
checkoutHandler_NoMethodGate(e, ev, outcome) == checkoutTry(e, ev, outcome)

\* exports.handler of create-checkout-session.js
checkoutHandler(e, ev, outcome) ==
  LET st0 == St("idle", 0, "", <<>>, NoResult)
  IN IF ev.httpMethod = "OPTIONS" THEN Return(st0, json(200, [ok |-> TRUE]))
     ELSE IF ev.httpMethod # "POST" THEN Return(st0, json(405, [error |-> "Method not allowed"]))
     ELSE checkoutTry(e, ev, outcome)

(***************************************************************************)
(* Inputs                                                                  *)
(***************************************************************************)
GoodSecret == "whsec_live"
OtherSecret == "whsec_other"

Opt(v) == {"", v}

\* process.env as the receiver reads it; the initiator's own values are set
AllEnvs ==
  [STRIPE_SECRET_KEY : Opt("sk_live"), STRIPE_WEBHOOK_SECRET : Opt(GoodSecret),
   KIT_API_KEY : Opt("kit_key"), KIT_TAG_ID : Opt("tag_1"), KIT_SEQUENCE_ID : Opt("seq_1"),
   STRIPE_PRICE_ID : {"price_123"}, SITE_URL : {<<"https://nostosprogram.com", "/">>}]

Keys == {"STRIPE_SECRET_KEY", "STRIPE_WEBHOOK_SECRET", "KIT_API_KEY"}

AbsentKeys(e) == {k \in Keys : e[k] = ""}

\* the three keys all set with any choice of tag and sequence id; one key
\* unset with both ids set; nothing set at all
WebhookEnvs ==
  { e \in AllEnvs :
      \/ AbsentKeys(e) = {}
      \/ Cardinality(AbsentKeys(e)) = 1 /\ e.KIT_TAG_ID # "" /\ e.KIT_SEQUENCE_ID # ""
      \/ AbsentKeys(e) = Keys /\ e.KIT_TAG_ID = "" /\ e.KIT_SEQUENCE_ID = "" }

WebhookEvent(m, h, b, b64) ==
  [httpMethod |-> m, headers |-> h, body |-> b, isBase64Encoded |-> b64]

\* another payload than p: what a tampered body was signed as
OtherPayload(p) == (p % Len(EventPayloads)) + 1

\* deliveries carrying a signature header, genuine or not
SigsFor(p) == {Sig(p, GoodSecret), Sig(p, OtherSecret), Sig(OtherPayload(p), GoodSecret)}

\* the header names a signature comes under, and the signatures tried under
\* each
SignaturesUnder(name, p) ==
  IF name = "stripe-signature" THEN SigsFor(p) ELSE {Sig(p, GoodSecret)}

SignedRequests ==
  UNION { { WebhookEvent("POST", Headers(<< <<nv[1], nv[2]>> >>), Body(enc, p), b64) :
              nv \in UNION { {<<name, sig>> : sig \in SignaturesUnder(name, p)} :
                             name \in {"stripe-signature", "Stripe-Signature"} },
              enc \in {"utf8", "b64"}, b64 \in BOOLEAN } :
          p \in PayloadIds }

\* a payload that references no payment intent
PlainPayload == Len(EventPayloads)

\* the completed events a session paid with pi_1 can produce
PaidPayloads == {p \in PayloadIds : EventPayloads[p].object.payment_intent = "pi_1"}

\* deliveries in which getHeader finds no signature
UnsignedRequests ==
  { WebhookEvent("POST", h, Body("utf8", PlainPayload), FALSE) :
      h \in { NoHeaders, Headers(<<>>),
              Headers(<< <<"X-Other", Sig(PlainPayload, GoodSecret)>> >>),
              Headers(<< <<"stripe-signature", EmptyValue>> >>),
              Headers(<< <<"Stripe-Signature", EmptyValue>>,
                         <<"STRIPE-SIGNATURE", Sig(PlainPayload, GoodSecret)>> >>) } }

\* deliveries whose header map has the signature under another casing, or
\* under two casings at once
CasingRequests ==
  { WebhookEvent("POST", h, Body("utf8", PlainPayload), FALSE) :
      h \in { Headers(<< <<"STRIPE-SIGNATURE", Sig(PlainPayload, GoodSecret)>> >>),
              Headers(<< <<"X-Other", Sig(PlainPayload, OtherSecret)>>,
                         <<"Stripe-Signature", Sig(PlainPayload, GoodSecret)>> >>),
              Headers(<< <<"Stripe-Signature", EmptyValue>>,
                         <<"stripe-signature", Sig(PlainPayload, GoodSecret)>> >>),
              Headers(<< <<"Stripe-Signature", Sig(PlainPayload, OtherSecret)>>,
                         <<"stripe-signature", Sig(PlainPayload, GoodSecret)>> >>),
              Headers(<< <<"STRIPE-SIGNATURE", Sig(PlainPayload, OtherSecret)>>,
                         <<"Stripe-Signature", Sig(PlainPayload, GoodSecret)>> >>) } }

\* a signed delivery with no body at all
BodylessRequests ==
  { WebhookEvent("POST", Headers(<< <<"stripe-signature", Sig(PlainPayload, GoodSecret)>> >>), NullBody, b64) :
      b64 \in BOOLEAN }

\* requests with another method
OtherMethodRequests ==
  { WebhookEvent("GET", h, Body("utf8", PlainPayload), FALSE) :
      h \in { NoHeaders, Headers(<< <<"stripe-signature", Sig(PlainPayload, GoodSecret)>> >>) } }

WebhookRequests ==
  SignedRequests \cup UnsignedRequests \cup CasingRequests \cup BodylessRequests \cup OtherMethodRequests

CheckoutEvent(m, b) == [httpMethod |-> m, body |-> b]

CheckoutRequests ==
  { CheckoutEvent("OPTIONS", CheckoutBody("null", <<>>, <<>>)),
    CheckoutEvent("POST", CheckoutBody("json", <<" ", "A", "@", "b", ".", "c">>, <<"n", " ">>)),
    CheckoutEvent("POST", CheckoutBody("json", <<"a", "@", "b">>, <<>>)) }

CreateOutcomes == {CreateOk, CreateFails("No such price")}

IdleEvent == WebhookEvent("", NoHeaders, NullBody, FALSE)

\* Inputs of the initiator on its own: configurations, methods, bodies
Slashes(n) == [i \in 1..n |-> "/"]

\* SITE_URL: unset, or a base followed by 0..MaxSlashes slashes
SiteUrls ==
  { base \o Slashes(n) :
      base \in {<<>>, <<"https://nostosprogram.com">>, <<"https://x.y", "/", "app">>},
      n \in 0..MaxSlashes }

CheckoutEnvs ==
  [STRIPE_SECRET_KEY : Opt("sk_live"), STRIPE_WEBHOOK_SECRET : {GoodSecret},
   KIT_API_KEY : {"kit_key"}, KIT_TAG_ID : {"tag_1"}, KIT_SEQUENCE_ID : {""},
   STRIPE_PRICE_ID : Opt("price_123"), SITE_URL : SiteUrls]

\* payload.email
Emails ==
  { <<>>, <<" ">>, <<"a", "@", "b", ".", "c">>, <<" ", "A", "@", "B", ".", "c">>,
    <<" ", "a", "@", "b", ".", "c", " ">>, <<"a", "@", "b">>, <<"a", ".", "b">>,
    <<"@", "b", ".", "c">>, <<"a", "@", ".", "c">>, <<"a", "@", "b", ".">>,
    <<"a", " ", "@", "b", ".", "c">>, <<"a", "@", "b", "@", "c", ".", "d">>,
    <<"a", ".", "b", "@", "c">> }

CheckoutBodies ==
  {CheckoutBody("null", <<>>, <<>>), CheckoutBody("invalid", <<>>, <<>>)}
    \cup {CheckoutBody("json", em, <<>>) : em \in Emails}
    \cup {CheckoutBody("json", em, <<" ", "n", " ">>) : em \in {<<"a", "@", "b", ".", "c">>, <<"a", "@", "b">>}}

OtherMethods == {"OPTIONS", "GET", "PUT", "DELETE"}

\* every body by POST; by the other methods no body, an unparsable one, and
\* one with a valid email
CheckoutInputs ==
  {CheckoutEvent("POST", b) : b \in CheckoutBodies}
    \cup {CheckoutEvent(m, b) :
            m \in OtherMethods,
            b \in {CheckoutBody("null", <<>>, <<>>), CheckoutBody("invalid", <<>>, <<>>),
                   CheckoutBody("json", <<"a", "@", "b", ".", "c">>, <<>>)}}

CheckoutOutcomes == {CreateOk, CreateFails("No such price"), CreateFails("")}

(***************************************************************************)
(* Specification                                                           *)
(***************************************************************************)
Init ==
  /\ variant \in Variants
  /\ env \in WebhookEnvs
  /\ piFlag = "none"
  /\ paid = 0
  /\ forwards = 0
  /\ fn = "none"
  /\ pc = "idle"
  /\ event = IdleEvent
  /\ stripeEvent = 0
  /\ email = ""
  /\ calls = <<>>
  /\ result = NoResult

Install(st) ==
  /\ pc' = st.pc
  /\ stripeEvent' = st.stripeEvent
  /\ email' = st.email
  /\ calls' = st.calls
  /\ result' = st.result

Current == St(pc, stripeEvent, email, calls, result)

\* the session of the event being processed references payment intent pi_1
OnPaymentIntent(st) ==
  st.stripeEvent # 0 /\ EventPayloads[st.stripeEvent].object.payment_intent = "pi_1"

\* every forwarding call of the invocation has succeeded
ForwardingComplete(st) ==
  \/ st.pc = "pi_update"
  \/ st.pc = "done" /\ HasField(st.result.body, "processed") /\ st.result.body.processed

\* create-checkout-session is invoked and runs to its return.  The first
\* session it creates is the one paid with pi_1: the provider creates the
\* payment intent with the metadata given, and the customer's details fix
\* the completed event it will deliver.
CreateCheckoutSession(ev, outcome) ==
  /\ pc \in {"idle", "done"}
  /\ LET st == checkoutHandler(env, ev, outcome)
         creates == st.result.statusCode = 200 /\ st.calls # <<>> /\ piFlag = "none"
     IN /\ Install(st)
        /\ piFlag' = IF creates
                     THEN st.calls[1].target.payment_intent_data.metadata.kit_sync_completed
                     ELSE piFlag
        /\ paid' \in IF creates THEN PaidPayloads ELSE {paid}
  /\ fn' = "create-checkout-session"
  /\ event' = ev
  /\ UNCHANGED <<variant, env, forwards>>

\* the provider delivers an event to stripe-webhook; the handler runs to its
\* first await or to its return
Invoke(ev) ==
  /\ pc \in {"idle", "done"}
  /\ forwards < MaxForwards
  /\ ev.body.json \in PaidPayloads => ev.body.json = paid
  /\ Install(handler(variant, env, ev))
  /\ fn' = "stripe-webhook"
  /\ event' = ev
  /\ UNCHANGED <<variant, env, piFlag, paid, forwards>>

\* the awaited subscriber-API call completes and the handler resumes
KitResponds(out) ==
  /\ pc \in KitOps
  /\ LET st == Resume(variant, env, Current, out)
     IN /\ Install(st)
        /\ forwards' = IF ForwardingComplete(st) /\ OnPaymentIntent(st)
                       THEN forwards + 1 ELSE forwards
  /\ UNCHANGED <<variant, env, piFlag, paid, fn, event>>

\* paymentIntents.retrieve completes (idempotency variant)
PaymentIntentRetrieved ==
  /\ pc = "pi_retrieve"
  /\ Install(IdemAfterRetrieve(env, Settle(Current, Response(200, <<piFlag>>)), piFlag))
  /\ UNCHANGED <<variant, env, piFlag, paid, forwards, fn, event>>

\* paymentIntents.update completes (idempotency variant)
PaymentIntentUpdated ==
  /\ pc = "pi_update"
  /\ piFlag' = "true"
  /\ Install(Return(Settle(Current, Response(200, <<"true">>)), ProcessedTrue))
  /\ UNCHANGED <<variant, env, paid, forwards, fn, event>>

Next ==
  \/ \E ev \in CheckoutRequests, outcome \in CreateOutcomes : CreateCheckoutSession(ev, outcome)
  \/ \E ev \in WebhookRequests : Invoke(ev)
  \/ \E out \in KitOutcomes : KitResponds(out)
  \/ PaymentIntentRetrieved
  \/ PaymentIntentUpdated

Spec == Init /\ [][Next]_vars

\* The initiator on its own, over its configurations and requests
InitCheckout ==
  /\ variant = "tag"
  /\ env \in CheckoutEnvs
  /\ piFlag = "none"
  /\ paid = 0
  /\ forwards = 0
  /\ fn = "none"
  /\ pc = "idle"
  /\ event = IdleEvent
  /\ stripeEvent = 0
  /\ email = ""
  /\ calls = <<>>
  /\ result = NoResult

NextCheckout ==
  \E ev \in CheckoutInputs, outcome \in CheckoutOutcomes : CreateCheckoutSession(ev, outcome)

SpecCheckout == InitCheckout /\ [][NextCheckout]_vars

(***************************************************************************)
(* Vocabulary of the properties                                            *)
(***************************************************************************)
Webhook == fn = "stripe-webhook"

Done == pc = "done"

\* the subscriber-API calls of the invocation, in the order issued
KitCalls == SelectSeq(calls, LAMBDA c : c.op \in KitOps)

Completed(p) == EventPayloads[p].type = "checkout.session.completed"

\* the signature header the handler found
FoundSignature == getHeader(event.headers, "stripe-signature")

\* the request passed the method, configuration and signature-header gates
ReachedVerification ==
  /\ Webhook
  /\ event.httpMethod = "POST"
  /\ ~ConfigMissing(variant, env)
  /\ Truthy(FoundSignature)

\* The delivery is authentic: the signature was made by the provider (with
\* the configured signing secret) over the very payload the body carries, and
\* the body is in the transport encoding the event announces.
Authentic ==
  /\ FoundSignature.secret = env.STRIPE_WEBHOOK_SECRET
  /\ FoundSignature.signed = event.body.json
  /\ \/ event.isBase64Encoded /\ event.body.enc = "b64"
     \/ ~event.isBase64Encoded /\ event.body.enc = "utf8"

\* the delivery passed signature verification
Verified == ReachedVerification /\ Authentic

\* the email the session carries: customer_details.email when it is there
\* (and not empty), customer_email otherwise
EmailOf(p) ==
  LET s == EventPayloads[p].object
  IN IF s.customer_details.present /\ s.customer_details.email # ""
     THEN s.customer_details.email ELSE s.customer_email

\* a value the variant requires is absent
RequiredConfigAbsent ==
  \/ AbsentKeys(env) # {}
  \/ variant = "tag" /\ env.KIT_TAG_ID = ""
  \/ env.KIT_TAG_ID = "" /\ env.KIT_SEQUENCE_ID = ""

Processed(v) == HasField(result.body, "processed") /\ result.body.processed = v

\* the body of a response says the subscriber already exists
SaysAlreadyExists(raw) == raw \in {BodyExists, BodyTaken, BodyField}

Settled(c) == c.out.kind # "pending"

Succeeded(c) == c.out.kind = "response" /\ c.out.status >= 200 /\ c.out.status <= 299

\* the payment intent's flag was already "true" when the delivery arrived:
\* it is "true" and was not written by this very invocation
WroteFlag == calls # <<>> /\ calls[Len(calls)].op = "pi_update" /\ Settled(calls[Len(calls)])

FlagWasTrue == piFlag = "true" /\ ~WroteFlag

(***************************************************************************)
(* C1                                                                      *)
(***************************************************************************)
\* C1: every invocation of the receiver whose signature verification
\* succeeded returns 200, whatever the event type, the email and the
\* subscriber-API outcomes; a status other than 200 is 400, 405 or 500 and is
\* returned only when the method is not POST, required configuration is
\* absent, the signature header is missing, or verification failed.
C1_VerifiedReturns200 ==
  (Webhook /\ Done) =>
    /\ Verified => result.statusCode = 200
    /\ result.statusCode # 200 =>
         /\ result.statusCode \in {400, 405, 500}
         /\ \/ event.httpMethod # "POST"
            \/ RequiredConfigAbsent
            \/ ~Truthy(FoundSignature)
            \/ ~Authentic

\* a verified delivery whose subscriber-API call threw, answered 200
C1_Witness ==
  /\ Webhook /\ Done /\ Verified
  /\ \E i \in DOMAIN calls : calls[i].out.kind = "throw"
  /\ result.statusCode = 200

C4_TamperedRejected ==
  (ReachedVerification /\ ~Authentic) =>
    /\ Done
    /\ result.statusCode = 400
    /\ stripeEvent = 0
    /\ calls = <<>>

\* a base64 body that is not the payload the provider signed
C4_Witness ==
  /\ ReachedVerification /\ Done
  /\ event.isBase64Encoded /\ event.body.enc = "b64"
  /\ FoundSignature.secret = env.STRIPE_WEBHOOK_SECRET
  /\ FoundSignature.signed # event.body.json
  /\ Completed(event.body.json)
  /\ result = VerificationFailed

(***************************************************************************)
(* C5                                                                      *)
(***************************************************************************)
\* C5: a verified event of a type T other than checkout.session.completed is
\* answered 200 with exactly {received: true, ignored: true, type: T} and
\* makes no outbound call.
C5_OtherTypesIgnored ==
  (Verified /\ ~Completed(event.body.json)) =>
    /\ Done
    /\ result.statusCode = 200
    /\ result.body = [received |-> TRUE, ignored |-> TRUE,
                      type |-> EventPayloads[event.body.json].type]
    /\ calls = <<>>

C5_Witness ==
  /\ Verified /\ Done
  /\ EventPayloads[event.body.json].type = "charge.refunded"
  /\ result.body.type = "charge.refunded"

(***************************************************************************)
(* C6                                                                      *)
(***************************************************************************)
\* a verified completed event with an email, its payment intent not synced
FreshDelivery ==
  /\ Verified /\ Completed(event.body.json)
  /\ EmailOf(event.body.json) # ""
  /\ ~FlagWasTrue

\* every subscriber-API call of the invocation was answered 200 or 201
AllCreated == \A i \in DOMAIN KitCalls : KitCalls[i].out.kind = "response" /\ KitCalls[i].out.status \in {200, 201}

Ops(cs) == [i \in DOMAIN cs |-> cs[i].op]

\* C6 as stated: a fresh delivery whose subscriber-API calls all succeed
\* issues exactly one upsert call and then exactly one tag/sequence call.
C6_OneUpsertOneTagOrSequence ==
  (FreshDelivery /\ Done /\ AllCreated) =>
    /\ Len(KitCalls) = 2
    /\ KitCalls[1].op = "upsert"
    /\ KitCalls[2].op \in {"tag", "sequence"}

\* the calls a variant makes under a configuration
ExpectedOps ==
  <<"upsert">>
    \o (IF variant # "tag" /\ env.KIT_SEQUENCE_ID # "" THEN <<"sequence">> ELSE <<>>)
    \o (IF variant = "tag" \/ env.KIT_TAG_ID # "" THEN <<"tag">> ELSE <<>>)

\* C6, amended: a fresh delivery whose subscriber-API calls are all answered
\* 200 or 201 issues exactly one upsert call and then exactly one call per
\* configured target (the sequence enrollment, then the tag; the tag variant
\* makes the tag call only); and in every invocation a call is issued only
\* once the calls before it have completed, the upsert being the first.
C6_UpsertThenConfiguredCalls ==
  Webhook =>
    /\ (FreshDelivery /\ Done /\ AllCreated) => Ops(KitCalls) = ExpectedOps
    /\ \A i \in DOMAIN calls : i < Len(calls) => Settled(calls[i])
    /\ \A i \in DOMAIN KitCalls : (KitCalls[i].op = "upsert") <=> (i = 1)

\* the sequence/tag variant with both ids set: upsert, sequence, tag
C6_Witness ==
  /\ FreshDelivery /\ Done /\ AllCreated
  /\ variant = "seqtag"
  /\ Ops(KitCalls) = <<"upsert", "sequence", "tag">>

(***************************************************************************)
(* C7                                                                      *)
(***************************************************************************)
\* the forwarding calls a variant is configured to make
Configured(op) ==
  CASE op = "upsert" -> TRUE
    [] op = "tag" -> variant = "tag" \/ env.KIT_TAG_ID # ""
    [] OTHER -> variant # "tag" /\ env.KIT_SEQUENCE_ID # ""

\* C7 as stated: processed = true is returned only if every configured
\* forwarding call was issued and returned a success response.
C7_ProcessedOnlyIfAllSucceeded ==
  (Webhook /\ Done /\ Processed(TRUE)) =>
    \A op \in KitOps : Configured(op) =>
      \E i \in DOMAIN KitCalls : KitCalls[i].op = op /\ Succeeded(KitCalls[i])

\* a response the variant accepts for a call: a success response, or a
\* non-success response saying the subscriber already exists where the
\* variant tolerates it (the upsert of the tag variant, every call of the
\* flag-consulting variant)
Accepted(c) ==
  \/ Succeeded(c)
  \/ /\ c.out.kind = "response" /\ SaysAlreadyExists(c.out.raw)
     /\ \/ variant = "tag" /\ c.op = "upsert"
        \/ variant = "idem"

\* C7, amended: processed = true is returned only if every configured
\* forwarding call was issued and returned a success response or a tolerated
\* already-exists response.
C7_ProcessedOnlyIfAllAccepted ==
  (Webhook /\ Done /\ Processed(TRUE)) =>
    /\ \A op \in KitOps : Configured(op) =>
         \E i \in DOMAIN KitCalls : KitCalls[i].op = op /\ Accepted(KitCalls[i])
    /\ \A i \in DOMAIN KitCalls : Accepted(KitCalls[i])

\* the tag variant answers processed = true after an already-exists upsert
C7_Witness ==
  /\ Webhook /\ Done /\ Processed(TRUE) /\ variant = "tag"
  /\ Len(KitCalls) = 2
  /\ ~Succeeded(KitCalls[1]) /\ Succeeded(KitCalls[2])

(***************************************************************************)
(* C8                                                                      *)
(***************************************************************************)
\* C8: when the upsert call returns a non-success response whose body says
\* the subscriber already exists, the handler does not abort: a tag or
\* sequence call follows.
C8_ExistingSubscriberContinues ==
  (Webhook /\ KitCalls # <<>> /\ KitCalls[1].op = "upsert"
     /\ KitCalls[1].out.kind = "response" /\ ~Succeeded(KitCalls[1])
     /\ SaysAlreadyExists(KitCalls[1].out.raw)) =>
    /\ Len(KitCalls) >= 2
    /\ KitCalls[2].op \in {"tag", "sequence"}

(***************************************************************************)
(* C9                                                                      *)
(***************************************************************************)
\* C9: a subscriber-API call answered with a non-success response that does
\* not say the subscriber already exists is the last call of the invocation,
\* which returns 200 with received: true and processed: false.
C9_FailureAborts ==
  Webhook =>
    \A i \in DOMAIN KitCalls :
      (KitCalls[i].out.kind = "response" /\ ~Succeeded(KitCalls[i])
         /\ ~SaysAlreadyExists(KitCalls[i].out.raw)) =>
        /\ i = Len(KitCalls)
        /\ calls[Len(calls)] = KitCalls[i]
        /\ Done
        /\ result.statusCode = 200
        /\ result.body = [received |-> TRUE, processed |-> FALSE]

\* a failed upsert, no tag or sequence call after it
C9_Witness ==
  /\ Webhook /\ Done
  /\ Len(KitCalls) = 1 /\ KitCalls[1].op = "upsert"
  /\ KitCalls[1].out = Response(500, BodyError)
  /\ Processed(FALSE)

(***************************************************************************)
(* C10                                                                     *)
(***************************************************************************)
\* C10: a verified completed event with no email in customer_details.email
\* nor in customer_email is answered 200 with processed: false and makes no
\* outbound call; otherwise every call forwards customer_details.email when
\* present and customer_email when not.
C10_EmailExtraction ==
  (Verified /\ Completed(event.body.json)) =>
    IF EmailOf(event.body.json) = ""
    THEN /\ Done
         /\ result.statusCode = 200
         /\ Processed(FALSE)
         /\ calls = <<>>
    ELSE /\ calls # <<>>
         /\ \A i \in DOMAIN calls : calls[i].email = EmailOf(event.body.json)

\* the sequence/tag variant on a session with an empty customer_details.email
\* and no customer_email
C10_Witness ==
  /\ Verified /\ Done /\ variant = "seqtag"
  /\ EventPayloads[event.body.json].object = Session(Details(""), "", "pi_1")
  /\ Processed(FALSE)
  /\ calls = <<>>

(***************************************************************************)
(* C11                                                                     *)
(***************************************************************************)
\* the invocation returned a configuration error
ConfigErrorReturned ==
  /\ Done
  /\ result.statusCode = 500
  /\ HasField(result.body, "error")
  /\ result.body.error \in {"Missing webhook/KIT configuration", "Missing Stripe configuration"}

\* C11: a POST to the receiver returns the 500 configuration error if and
\* only if the provider secret key, the webhook signing secret or the
\* subscriber-API key is absent, or both the tag id and the sequence id are
\* absent (a configuration with only one of the two ids is accepted); and on
\* a configuration error no verification is attempted.
C11_ConfigErrorIff ==
  (Webhook /\ Done /\ event.httpMethod = "POST") =>
    /\ ConfigErrorReturned <=>
         \/ AbsentKeys(env) # {}
         \/ env.KIT_TAG_ID = "" /\ env.KIT_SEQUENCE_ID = ""
    /\ ConfigErrorReturned => (stripeEvent = 0 /\ calls = <<>>)

(***************************************************************************)
(* C12                                                                     *)
(***************************************************************************)
Range(s) == {s[i] : i \in DOMAIN s}

\* the configuration values the running handler requires and does not have
RequiredAbsent ==
  IF Webhook
  THEN AbsentKeys(env)
         \cup (IF variant = "tag" /\ env.KIT_TAG_ID = "" THEN {"KIT_TAG_ID"} ELSE {})
         \cup (IF variant # "tag" /\ env.KIT_TAG_ID = "" /\ env.KIT_SEQUENCE_ID = ""
               THEN {"KIT_TAG_ID", "KIT_SEQUENCE_ID"} ELSE {})
  ELSE {k \in {"STRIPE_SECRET_KEY", "STRIPE_PRICE_ID"} : env[k] = ""}

\* C12: whenever a handler (initiator or receiver) fails with a
\* configuration error, the status is 500, the body enumerates exactly the
\* required configuration values that are absent, and the invocation has made
\* no external call.
C12_ConfigErrorEnumeratesMissing ==
  ConfigErrorReturned =>
    /\ result.statusCode = 500
    /\ HasField(result.body, "missing")
    /\ Range(result.body.missing) = RequiredAbsent
    /\ calls = <<>>

(***************************************************************************)
(* C13                                                                     *)
(***************************************************************************)
\* the request passed the method and configuration gates
PastConfig == Webhook /\ event.httpMethod = "POST" /\ ~RequiredConfigAbsent

\* k is the name stripe-signature in some casing
IsSignatureName(k) == k \in {"stripe-signature", "Stripe-Signature", "STRIPE-SIGNATURE"}

HeaderName(i) == event.headers.entries[i][1]

HeaderValue(i) == event.headers.entries[i][2]

\* the keys of the header map equal to stripe-signature ignoring case
SignatureKeys == {i \in DOMAIN event.headers.entries : IsSignatureName(HeaderName(i))}

\* the signature v was made with the configured secret over the payload the
\* body carries, in the transport encoding the event announces
AuthenticWith(v) ==
  /\ v.secret = env.STRIPE_WEBHOOK_SECRET
  /\ v.signed = event.body.json
  /\ \/ event.isBase64Encoded /\ event.body.enc = "b64"
     \/ ~event.isBase64Encoded /\ event.body.enc = "utf8"

\* C13 as stated: whenever some key equal to stripe-signature ignoring case
\* has a non-empty value, the handler proceeds to verification with such a
\* value; when no key matches ignoring case it returns 400 and verification
\* is not attempted.
C13_AnyCasingFound ==
  PastConfig =>
    /\ (\E i \in SignatureKeys : Truthy(HeaderValue(i))) =>
         /\ result # MissingSignature
         /\ \E i \in SignatureKeys :
              Truthy(HeaderValue(i)) /\ (stripeEvent # 0 <=> AuthenticWith(HeaderValue(i)))
    /\ SignatureKeys = {} =>
         (Done /\ result = MissingSignature /\ stripeEvent = 0 /\ calls = <<>>)

\* the key whose value is used: the exact key stripe-signature when its value
\* is non-empty, otherwise the first key equal to it ignoring case
ExactKeys == {i \in SignatureKeys : HeaderName(i) = "stripe-signature" /\ Truthy(HeaderValue(i))}

LookedUp ==
  IF ExactKeys # {} THEN HeaderValue(MinOf(ExactKeys))
  ELSE IF SignatureKeys # {} THEN HeaderValue(MinOf(SignatureKeys))
  ELSE NullValue

\* C13, amended: the signature is the value under the exact key
\* stripe-signature when that is non-empty, otherwise the value under the
\* first key equal to stripe-signature ignoring case.  When it is non-empty
\* the handler proceeds to verification with it (and answers 400 when the
\* verification fails); when no key matches, or the value is empty, it
\* returns 400 "Missing Stripe signature" and verification is not attempted.
C13_FirstMatchingKeyUsed ==
  PastConfig =>
    IF Truthy(LookedUp)
    THEN /\ result # MissingSignature
         /\ stripeEvent # 0 <=> AuthenticWith(LookedUp)
         /\ stripeEvent = 0 => (Done /\ result = VerificationFailed /\ calls = <<>>)
    ELSE Done /\ result = MissingSignature /\ stripeEvent = 0 /\ calls = <<>>

\* the signature found under an upper-case key only, and verified
C13_Witness ==
  /\ PastConfig /\ Done
  /\ ExactKeys = {} /\ SignatureKeys # {}
  /\ HeaderName(MinOf(SignatureKeys)) = "STRIPE-SIGNATURE"
  /\ stripeEvent # 0

(***************************************************************************)
(* C14                                                                     *)
(***************************************************************************)
\* the awaited call rejected (a network failure)
Threw(c) == c.out.kind = "throw"

\* the acknowledgement of a caught exception
CaughtAck ==
  /\ Done
  /\ result.statusCode = 200
  /\ result.body = [received |-> TRUE, processed |-> FALSE]

\* C14: every exception raised while a verified event is processed is caught
\* and answered 200 {received: true, processed: false}, and nothing is done
\* after it: a subscriber-API call that throws, in the sequence/tag variant a
\* non-success response (kitRequest throws on it) and a session without
\* email; and no exception escapes: an invocation that ended has returned a
\* response.
C14_ExceptionsCaught ==
  Webhook =>
    /\ Done => result.statusCode \in {200, 400, 405, 500}
    /\ \A i \in DOMAIN calls :
         (Threw(calls[i]) \/ (variant = "seqtag" /\ Settled(calls[i]) /\ ~Succeeded(calls[i]))) =>
           (i = Len(calls) /\ CaughtAck)
    /\ (variant = "seqtag" /\ Verified /\ Completed(event.body.json)
          /\ EmailOf(event.body.json) = "") =>
         (calls = <<>> /\ CaughtAck)

\* the tag call fails on the network after a successful upsert
C14_Witness ==
  /\ Webhook /\ Done
  /\ Len(calls) = 2 /\ Succeeded(calls[1])
  /\ calls[2].op = "tag" /\ Threw(calls[2])
  /\ result = ProcessedFalse

(***************************************************************************)
(* Vocabulary of the initiator's properties                                *)
(***************************************************************************)
Checkout == fn = "create-checkout-session"

\* the email the request carries ("" when the body has none)
RawEmail == IF event.body.kind = "json" THEN event.body.email ELSE <<>>

\* a non-empty run of non-space characters (\S+)
NonSpaceRun(s) == s # <<>> /\ \A k \in DOMAIN s : s[k] # " "

\* s reads non-space@non-space.non-space
HasShape(s) ==
  \E i, j \in DOMAIN s :
    /\ i < j /\ s[i] = "@" /\ s[j] = "."
    /\ NonSpaceRun(SubSeq(s, 1, i - 1))
    /\ NonSpaceRun(SubSeq(s, i + 1, j - 1))
    /\ NonSpaceRun(SubSeq(s, j + 1, Len(s)))

\* s without the spaces around it
Core(s) ==
  LET inked == {k \in DOMAIN s : s[k] # " "}
  IN IF inked = {} THEN <<>>
     ELSE SubSeq(s, MinOf(inked), CHOOSE k \in inked : \A l \in inked : l <= k)

\* a value the initiator requires is absent
CheckoutConfigAbsent == env.STRIPE_SECRET_KEY = "" \/ env.STRIPE_PRICE_ID = ""

\* the session-creation calls of the invocation
CreateCalls == SelectSeq(calls, LAMBDA c : c.op = "sessions.create")

SessionReturned ==
  result.statusCode = 200 /\ DOMAIN result.body = {"url", "id"}

\* C16: the initiator returns 200 with {url, id} only after exactly one
\* session-creation call succeeded, that call binding the validated email
\* (the request's email without the spaces around it, in lower case) as
\* customer_email, with the configured price in quantity 1 and
\* kit_sync_completed = "false" in the payment-intent metadata; a call that
\* fails is answered 500 with the provider's message (a fixed text when the
\* message is empty), and in no invocation is a second call made.
C16_OneCreateCall ==
  (Checkout /\ Done) =>
    /\ Len(CreateCalls) <= 1
    /\ CreateCalls = calls
    /\ SessionReturned =>
         /\ Len(CreateCalls) = 1
         /\ CreateCalls[1].out.ok
    /\ \A i \in DOMAIN CreateCalls :
         LET c == CreateCalls[i]
         IN /\ c.target.customer_email = toLowerCaseChars(Core(RawEmail))
            /\ HasShape(c.target.customer_email)
            /\ c.target.line_items = <<[price |-> env.STRIPE_PRICE_ID, quantity |-> 1]>>
            /\ c.target.payment_intent_data.metadata.kit_sync_completed = "false"
            /\ c.out.ok => SessionReturned
            /\ ~c.out.ok =>
                 /\ result.statusCode = 500
                 /\ result.body = [error |-> IF c.out.message # "" THEN c.out.message
                                             ELSE "Unable to create checkout session"]

\* a session created for an email given in upper case with spaces around it
C16_Witness ==
  /\ Checkout /\ Done /\ SessionReturned
  /\ RawEmail = <<" ", "A", "@", "B", ".", "c">>
  /\ Len(CreateCalls) = 1
  /\ CreateCalls[1].target.customer_email = <<"a", "@", "b", ".", "c">>

(***************************************************************************)
(* C17                                                                     *)
(***************************************************************************)
\* C17: the initiator answers the method OPTIONS with 200 and every other
\* method than POST with 405, and in both cases makes no call to the payment
\* provider, whatever the body and the configuration.
C17_MethodGate ==
  (Checkout /\ Done /\ event.httpMethod # "POST") =>
    /\ result.statusCode = IF event.httpMethod = "OPTIONS" THEN 200 ELSE 405
    /\ ~SessionReturned
    /\ calls = <<>>

\* a GET carrying a valid email under a complete configuration
C17_Witness ==
  /\ Checkout /\ Done /\ event.httpMethod = "GET"
  /\ ~CheckoutConfigAbsent /\ HasShape(RawEmail)
  /\ result.statusCode = 405
  /\ calls = <<>>

(***************************************************************************)
(* C18                                                                     *)
(***************************************************************************)
\* the number of slashes u ends in
TrailingSlashes(u) ==
  LET other == {k \in DOMAIN u : u[k] # "/"}
  IN IF other = {} THEN Len(u)
     ELSE Len(u) - (CHOOSE k \in other : \A l \in other : l <= k)

\* the site URL in force: SITE_URL, or the default when it is not set
ConfiguredSiteUrl == IF env.SITE_URL # <<>> THEN env.SITE_URL ELSE DefaultSiteUrl

\* url is base followed by path
IsPrefixedBy(url, base, path) == url = base \o path

\* C18: the redirect URLs are built on the configured site URL with exactly
\* one trailing slash stripped: a URL ending in n >= 1 slashes is used with
\* n - 1 of them, a URL ending in none is used as it is.
C18_OneTrailingSlashStripped ==
  (Checkout /\ Done) =>
    \A i \in DOMAIN CreateCalls :
      LET n == TrailingSlashes(ConfiguredSiteUrl)
          used == SubSeq(ConfiguredSiteUrl, 1, Len(ConfiguredSiteUrl) - (IF n >= 1 THEN 1 ELSE 0))
      IN /\ TrailingSlashes(used) = (IF n >= 1 THEN n - 1 ELSE 0)
         /\ IsPrefixedBy(CreateCalls[i].target.success_url, used,
                         <<"/merci?session_id={CHECKOUT_SESSION_ID}">>)
         /\ IsPrefixedBy(CreateCalls[i].target.cancel_url, used, <<"/annulation">>)

\* a site URL ending in two slashes is used with one
C18_Witness ==
  /\ Checkout /\ Done /\ Len(CreateCalls) = 1
  /\ env.SITE_URL = <<"https://nostosprogram.com", "/", "/">>
  /\ CreateCalls[1].target.cancel_url = <<"https://nostosprogram.com", "/", "/annulation">>

(***************************************************************************)
(* C19                                                                     *)
(***************************************************************************)
\* nothing past the gates was done: no event was constructed, no call made
NothingDone == stripeEvent = 0 /\ calls = <<>>

\* C19: the receiver evaluates its gates in the order method, configuration,
\* signature header, signature verification, event type, and answers with
\* the first gate that fails, nothing later being done: 405 for another
\* method than POST even when configuration is missing, 500 for missing
\* configuration even when the signature header is absent, 400 for an absent
\* header, 400 for a failed verification, the ignored acknowledgement for
\* another event type; and a subscriber-API or payment-intent call is made
\* only by an invocation that passed verification.
C19_GatesInOrder ==
  Webhook =>
    /\ IF event.httpMethod # "POST"
         THEN Done /\ result = MethodNotAllowed /\ NothingDone
       ELSE IF RequiredConfigAbsent
         THEN ConfigErrorReturned /\ NothingDone
       ELSE IF ~Truthy(LookedUp)
         THEN Done /\ result = MissingSignature /\ NothingDone
       ELSE IF ~AuthenticWith(LookedUp)
         THEN Done /\ result = VerificationFailed /\ NothingDone
       ELSE IF ~Completed(event.body.json)
         THEN /\ Done /\ result.statusCode = 200
              /\ HasField(result.body, "ignored")
              /\ stripeEvent = event.body.json /\ calls = <<>>
       ELSE /\ stripeEvent = event.body.json
            /\ Done => (result.statusCode = 200 /\ ~HasField(result.body, "ignored"))
    /\ calls # <<>> =>
         /\ event.httpMethod = "POST" /\ ~RequiredConfigAbsent
         /\ Truthy(LookedUp) /\ AuthenticWith(LookedUp)
         /\ stripeEvent # 0 /\ Completed(stripeEvent)

\* missing configuration answered 500 although the signature header is
\* absent as well
C19_Witness ==
  /\ Webhook /\ Done /\ event.httpMethod = "POST"
  /\ RequiredConfigAbsent /\ SignatureKeys = {}
  /\ result.statusCode = 500

(***************************************************************************)
(* C20                                                                     *)
(***************************************************************************)
\* C20: a tag or sequence-enrollment call answered with a non-success
\* response is handled as the upsert is: when the body says the subscriber
\* already exists processing goes on (to the next call, or to the
\* processed: true acknowledgement when it was the last one); any other
\* non-success response is the last call of the invocation, which returns 200
\* with processed: false.
C20_SamePolicyPerCall ==
  Webhook =>
    \A i \in DOMAIN calls :
      (calls[i].op \in {"tag", "sequence"}
         /\ calls[i].out.kind = "response" /\ ~Succeeded(calls[i])) =>
        IF SaysAlreadyExists(calls[i].out.raw)
        THEN i < Len(calls) \/ (Done /\ Processed(TRUE))
        ELSE i = Len(calls) /\ CaughtAck

====
